---- MODULE Spec2Model ----
(***************************************************************************)
(* Model of the CaseChallenge analytics scripts: the three near-duplicate  *)
(* programs casechallenge_final.py, casechallenge_sony.py and              *)
(* final_case.py.  Each loads the performance table joined with the track  *)
(* and artist tables, scores the tracks (recommend_track), and computes    *)
(* the demographic split of the best track (audience_analysis).            *)
(*                                                                         *)
(* Floating point is modelled by exact rationals extended with the IEEE    *)
(* specials NaN and +/-inf, which is what decides every property below     *)
(* (division by zero, NaN propagation, NaN placement by the sort).         *)
(* Percentages rounded with round(x, 1) are rounded half-to-even, as       *)
(* numpy does.                                                             *)
(*                                                                         *)
(* Input domain: every performance row finds its track and artist in the   *)
(* joined tables (the left joins attach a display name to every row), and  *)
(* the performance table holds at most one row per (isrc, age, gender).    *)
(***************************************************************************)
EXTENDS Integers, Sequences, FiniteSets, TLC

VARIABLES
    variant,    \* which of the three programs runs
    source,     \* rows of the remote table sme_track_data
    pc,         \* position of the caller (main, or a direct caller)
    data,       \* the joined DataFrame, or None
    ranked,     \* the DataFrame recommend_track returned (a sequence of rows)
    best,       \* grouped.iloc[0], or None
    audience,   \* outcome of audience_analysis, or None
    calls       \* the calls made so far, in order

vars == <<variant, source, pc, data, ranked, best, audience, calls>>

None == [none |-> TRUE]

\* a DataFrame held in a variable that may also hold None
Frame(rows) == [none |-> FALSE, rows |-> rows]

Variants == {"casechallenge_final", "casechallenge_sony", "final_case"}

-----------------------------------------------------------------------------
(* float64 values: rationals n/d in lowest terms, NaN, +inf, -inf *)

Abs(x) == IF x < 0 THEN -x ELSE x

RECURSIVE GCD(_, _)
GCD(a, b) == IF b = 0 THEN a ELSE GCD(b, a % b)

Num(n, d) ==
    LET s == IF d < 0 THEN -1 ELSE 1
        g == GCD(Abs(n), Abs(d))
    IN  [k |-> "num", n |-> (s * n) \div g, d |-> Abs(d) \div g]

Int2F(i) == [k |-> "num", n |-> i, d |-> 1]
NaN == [k |-> "nan", n |-> 0, d |-> 0]
PInf == [k |-> "inf", n |-> 1, d |-> 0]
NInf == [k |-> "inf", n |-> -1, d |-> 0]

IsNaN(x) == x.k = "nan"
IsNum(x) == x.k = "num"
IsInf(x) == x.k = "inf"
Sign(x) == IF x.n > 0 THEN 1 ELSE IF x.n < 0 THEN -1 ELSE 0
InfOf(s) == IF s > 0 THEN PInf ELSE NInf

FNeg(x) == IF IsNaN(x) THEN NaN ELSE [x EXCEPT !.n = -x.n]

FAdd(x, y) ==
    IF IsNaN(x) \/ IsNaN(y) THEN NaN
    ELSE IF IsInf(x) /\ IsInf(y) THEN (IF x.n = y.n THEN x ELSE NaN)
    ELSE IF IsInf(x) THEN x
    ELSE IF IsInf(y) THEN y
    ELSE Num(x.n * y.d + y.n * x.d, x.d * y.d)

FSub(x, y) == FAdd(x, FNeg(y))

FMul(x, y) ==
    IF IsNaN(x) \/ IsNaN(y) THEN NaN
    ELSE IF IsInf(x) \/ IsInf(y)
         THEN (IF Sign(x) * Sign(y) = 0 THEN NaN ELSE InfOf(Sign(x) * Sign(y)))
    ELSE Num(x.n * y.n, x.d * y.d)

FDiv(x, y) ==
    IF IsNaN(x) \/ IsNaN(y) THEN NaN
    ELSE IF IsInf(x) /\ IsInf(y) THEN NaN
    ELSE IF IsInf(x) THEN (IF Sign(y) < 0 THEN FNeg(x) ELSE x)
    ELSE IF IsInf(y) THEN Int2F(0)
    ELSE IF y.n = 0 THEN (IF x.n = 0 THEN NaN ELSE InfOf(Sign(x)))
    ELSE Num(x.n * y.d, x.d * y.n)

\* x > y; every comparison with NaN is false
FGt(x, y) ==
    /\ ~IsNaN(x)
    /\ ~IsNaN(y)
    /\ IF IsInf(x) THEN x.n > 0 /\ x # y
       ELSE IF IsInf(y) THEN y.n < 0
       ELSE x.n * y.d > y.n * x.d

FGe(x, y) == ~IsNaN(x) /\ ~IsNaN(y) /\ ~FGt(y, x)

-----------------------------------------------------------------------------
(* Strings: Python compares them lexicographically; LexOrder lists every   *)
(* label of the model in that order.                                       *)

LexOrder == <<"13-17", "18-24", "25-34", "35-44", "45-54", "55+",
              "FEMALE", "MALE", "T1", "T2", "T3", "X", "Y">>

LexPos(s) == CHOOSE i \in 1..Len(LexOrder) : LexOrder[i] = s

StrLt(a, b) == LexPos(a) < LexPos(b)

\* tuple comparison (a1, a2) < (b1, b2)
PairLt(a1, a2, b1, b2) == StrLt(a1, b1) \/ (a1 = b1 /\ StrLt(a2, b2))

-----------------------------------------------------------------------------
(* The remote tables.  sme_track and sme_artist are fixed: four tracks,    *)
(* two of which carry the same display names under different ISRCs.        *)

ISRCs == <<"ISRC1", "ISRC1B", "ISRC2", "ISRC3">>

TrackMeta(isrc) ==
    CASE isrc = "ISRC1"  -> [track_name |-> "T1", artist_name |-> "X"]
      [] isrc = "ISRC1B" -> [track_name |-> "T1", artist_name |-> "X"]
      [] isrc = "ISRC2"  -> [track_name |-> "T2", artist_name |-> "X"]
      [] isrc = "ISRC3"  -> [track_name |-> "T3", artist_name |-> "Y"]

IsrcPos(isrc) == CHOOSE i \in 1..Len(ISRCs) : ISRCs[i] = isrc

\* bounds of the generated performance tables
MaxRows == 2
StreamVals == {0, 1, 2}
SaveVals == {0, 1}
SkipVals == {0, 10}
SliceAges == {"18-24", "25-34"}
Genders == {"FEMALE", "MALE"}

PerfRow(isrc, age, g, streams, saves, skip) ==
    [isrc |-> isrc, age_group |-> age, gender |-> g,
     total_streams |-> streams, total_saves |-> saves, skip_rate |-> skip]

\* one demographic slice per track, several tracks
ScoreRows ==
    {PerfRow(ISRCs[i], "18-24", "MALE", st, sv, sk) :
        i \in 1..Len(ISRCs), st \in StreamVals, sv \in SaveVals, sk \in SkipVals}

ScoreTables ==
    UNION {{t \in [1..n -> ScoreRows] :
               \A i, j \in 1..n : i < j => IsrcPos(t[i].isrc) < IsrcPos(t[j].isrc)} :
           n \in 1..MaxRows}

\* one track, several demographic slices, in any order
SliceRows ==
    {PerfRow("ISRC1", a, g, st, 1, 10) :
        a \in SliceAges, g \in Genders, st \in StreamVals}

SliceTables ==
    UNION {{t \in [1..n -> SliceRows] :
               \A i, j \in 1..n :
                   i < j => <<t[i].age_group, t[i].gender>> # <<t[j].age_group, t[j].gender>>} :
           n \in 1..MaxRows}

\* the scoring scenario: T1(1000, 100, 5), T2(500, 20, 10), T3(2000, 150, 2)
ScenarioScore ==
    <<PerfRow("ISRC1", "18-24", "MALE", 1000, 100, 5),
      PerfRow("ISRC2", "18-24", "MALE", 500, 20, 10),
      PerfRow("ISRC3", "18-24", "MALE", 2000, 150, 2)>>

\* the segmentation scenario: four cells of 800, 600, 400 and 200 streams
ScenarioSegment ==
    <<PerfRow("ISRC1", "18-24", "MALE", 800, 80, 5),
      PerfRow("ISRC1", "18-24", "FEMALE", 600, 60, 5),
      PerfRow("ISRC1", "25-34", "MALE", 400, 40, 5),
      PerfRow("ISRC1", "25-34", "FEMALE", 200, 20, 5)>>

\* two tracks whose max-relative scores are both 0.65
ScenarioTie ==
    <<PerfRow("ISRC1", "18-24", "MALE", 1, 2, 10),
      PerfRow("ISRC2", "18-24", "MALE", 2, 1, 20)>>

\* one track heard equally in twelve cells (six age buckets, two genders)
AllAges == <<"13-17", "18-24", "25-34", "35-44", "45-54", "55+">>

ScenarioUniform ==
    [i \in 1..12 |->
        PerfRow("ISRC1", AllAges[((i - 1) \div 2) + 1],
                IF i % 2 = 1 THEN "MALE" ELSE "FEMALE", 1, 1, 10)]

Scenarios == {ScenarioScore, ScenarioSegment, ScenarioTie, ScenarioUniform}

Tables == {<<>>} \cup ScoreTables \cup SliceTables \cup Scenarios

-----------------------------------------------------------------------------
(* load_combine_data / load_data: the two left joins and the rename.       *)

JoinRow(r) ==
    [isrc |-> r.isrc, age_group |-> r.age_group, gender |-> r.gender,
     total_streams |-> r.total_streams, total_saves |-> r.total_saves,
     skip_rate |-> r.skip_rate,
     track_name |-> TrackMeta(r.isrc).track_name,
     artist_name |-> TrackMeta(r.isrc).artist_name]

Combine(tbl) == [i \in 1..Len(tbl) |-> JoinRow(tbl[i])]

-----------------------------------------------------------------------------
(* pandas helpers *)

RECURSIVE SumInts(_)
SumInts(s) == IF s = <<>> THEN 0 ELSE Head(s) + SumInts(Tail(s))

RECURSIVE FSum(_)
FSum(s) == IF s = <<>> THEN Int2F(0) ELSE FAdd(Head(s), FSum(Tail(s)))

RECURSIVE MaxInts(_)
MaxInts(s) ==
    IF Len(s) = 1 THEN s[1]
    ELSE LET m == MaxInts(Tail(s)) IN IF s[1] > m THEN s[1] ELSE m

\* Series.mean(): NaN entries are skipped; the mean of nothing is NaN
FMean(s) ==
    LET kept == SelectSeq(s, LAMBDA x : ~IsNaN(x))
    IN  IF kept = <<>> THEN NaN ELSE FDiv(FSum(kept), Int2F(Len(kept)))

\* Series.max(): NaN entries are skipped; the max of nothing is NaN
RECURSIVE FMaxSeq(_)
FMaxSeq(s) ==
    IF Len(s) = 1 THEN s[1]
    ELSE LET m == FMaxSeq(Tail(s)) IN IF FGt(s[1], m) THEN s[1] ELSE m

FMax(s) ==
    LET kept == SelectSeq(s, LAMBDA x : ~IsNaN(x))
    IN  IF kept = <<>> THEN NaN ELSE FMaxSeq(kept)

\* the distinct (track_name, artist_name) keys of a frame
GroupKeys(df) == {<<df[i].track_name, df[i].artist_name>> : i \in 1..Len(df)}

\* groupby sorts its keys
RECURSIVE SortKeys(_)
SortKeys(S) ==
    IF S = {} THEN <<>>
    ELSE LET m == CHOOSE x \in S :
                      \A y \in S \ {x} : PairLt(x[1], x[2], y[1], y[2])
         IN  <<m>> \o SortKeys(S \ {m})

\* drop_duplicates in place of the aggregation: the first row of each group only
GroupAggFirstRow(df) ==
    LET keys == SortKeys(GroupKeys(df))
        part(key) == SelectSeq(df, LAMBDA r : <<r.track_name, r.artist_name>> = key)
        agg(key) ==
            LET rows == SubSeq(part(key), 1, 1)
            IN  [track_name |-> key[1], artist_name |-> key[2],
                 total_streams |-> SumInts([i \in 1..Len(rows) |-> rows[i].total_streams]),
                 total_saves |-> SumInts([i \in 1..Len(rows) |-> rows[i].total_saves]),
                 skip_rate |-> Num(SumInts([i \in 1..Len(rows) |-> rows[i].skip_rate]),
                                   Len(rows))]
    IN  [i \in 1..Len(keys) |-> agg(keys[i])]

\* df.groupby(['track_name', 'artist_name']).agg(sum, sum, mean).reset_index()
GroupAgg(df) ==
    LET keys == SortKeys(GroupKeys(df))
        part(key) == SelectSeq(df, LAMBDA r : <<r.track_name, r.artist_name>> = key)
        agg(key) ==
            LET rows == part(key)
            IN  [track_name |-> key[1], artist_name |-> key[2],
                 total_streams |-> SumInts([i \in 1..Len(rows) |-> rows[i].total_streams]),
                 total_saves |-> SumInts([i \in 1..Len(rows) |-> rows[i].total_saves]),
                 skip_rate |-> Num(SumInts([i \in 1..Len(rows) |-> rows[i].skip_rate]),
                                   Len(rows))]
    IN  [i \in 1..Len(keys) |-> agg(keys[i])]

-----------------------------------------------------------------------------
(* recommend_track, mean-relative scoring                                   *)
(* (casechallenge_final.py, casechallenge_sony.py)                          *)

\* the stream-share term left out
TotalScoreMeanNoShare(save_rate_norm, skip_rate_norm, stream_share) ==
    FSub(FMul(Num(1, 2), save_rate_norm), FMul(Num(3, 10), skip_rate_norm))

\* Score = 0.5 * SaveRateNorm - 0.3 * SkipRateNorm + 0.2 * StreamShare
TotalScoreMean(save_rate_norm, skip_rate_norm, stream_share) ==
    FAdd(FSub(FMul(Num(1, 2), save_rate_norm), FMul(Num(3, 10), skip_rate_norm)),
         FMul(Num(1, 5), stream_share))

ScoreMeanRelative(df) ==
    LET g == GroupAgg(df)
        n == Len(g)
        save_rate == [i \in 1..n |->
                         FDiv(Int2F(g[i].total_saves), Int2F(g[i].total_streams))]
        skip_rate == [i \in 1..n |-> FDiv(g[i].skip_rate, Int2F(100))]
        SAVE_RATE_AVG == FMean(save_rate)
        SKIP_RATE_AVG == FMean(skip_rate)
        TOTAL_STREAMS_ALL == SumInts([i \in 1..n |-> g[i].total_streams])
        save_rate_norm == [i \in 1..n |-> FDiv(save_rate[i], SAVE_RATE_AVG)]
        skip_rate_norm == [i \in 1..n |-> FDiv(skip_rate[i], SKIP_RATE_AVG)]
        stream_share == [i \in 1..n |->
                            FDiv(Int2F(g[i].total_streams), Int2F(TOTAL_STREAMS_ALL))]
    IN  [i \in 1..n |->
            [track_name |-> g[i].track_name, artist_name |-> g[i].artist_name,
             total_streams |-> g[i].total_streams, total_saves |-> g[i].total_saves,
             skip_rate |-> skip_rate[i], save_rate |-> save_rate[i],
             save_rate_norm |-> save_rate_norm[i],
             skip_rate_norm |-> skip_rate_norm[i],
             stream_share |-> stream_share[i],
             total_score |->
                 TotalScoreMean(save_rate_norm[i], skip_rate_norm[i], stream_share[i])]]

(* recommend_track, max-relative scoring (final_case.py) *)

\* stream_score*0.5 + save_score*0.3 + skip_score*0.2
TotalScoreMax(stream_score, save_score, skip_score) ==
    FAdd(FAdd(FMul(stream_score, Num(1, 2)), FMul(save_score, Num(3, 10))),
         FMul(skip_score, Num(1, 5)))

ScoreMaxRelative(df) ==
    LET g == GroupAgg(df)
        n == Len(g)
        max_streams == Int2F(MaxInts([i \in 1..n |-> g[i].total_streams]))
        max_saves == Int2F(MaxInts([i \in 1..n |-> g[i].total_saves]))
        max_skip == FMax([i \in 1..n |-> g[i].skip_rate])
        stream_score == [i \in 1..n |-> FDiv(Int2F(g[i].total_streams), max_streams)]
        save_score == [i \in 1..n |-> FDiv(Int2F(g[i].total_saves), max_saves)]
        skip_score == [i \in 1..n |->
                          FSub(Int2F(1), FDiv(g[i].skip_rate, max_skip))]
    IN  [i \in 1..n |->
            [track_name |-> g[i].track_name, artist_name |-> g[i].artist_name,
             total_streams |-> g[i].total_streams, total_saves |-> g[i].total_saves,
             skip_rate |-> g[i].skip_rate,
             save_rate |-> FMul(FDiv(Int2F(g[i].total_saves), Int2F(g[i].total_streams)),
                                Int2F(100)),
             stream_score |-> stream_score[i], save_score |-> save_score[i],
             skip_score |-> skip_score[i],
             total_score |->
                 TotalScoreMax(stream_score[i], save_score[i], skip_score[i])]]

Scored(v, df) ==
    IF v = "final_case" THEN ScoreMaxRelative(df) ELSE ScoreMeanRelative(df)

(* grouped.sort_values('total_score', ascending=False).reset_index(drop=True):  *)
(* rows whose score is NaN go last, in their original order; the others are     *)
(* put in descending order by numpy's default sort, which is not stable, so     *)
(* rows of equal score may come out in either order.                            *)
SortValues(rows) ==
    LET n == Len(rows)
        perms == {p \in [1..n -> 1..n] : \A i, j \in 1..n : i # j => p[i] # p[j]}
        nan(i) == IsNaN(rows[i].total_score)
        ok(p) == \A i, j \in 1..n :
                    i < j =>
                        /\ nan(p[i]) => nan(p[j])
                        /\ (nan(p[i]) /\ nan(p[j])) => p[i] < p[j]
                        /\ (~nan(p[i]) /\ ~nan(p[j])) =>
                               FGe(rows[p[i]].total_score, rows[p[j]].total_score)
    IN  {[i \in 1..n |-> rows[p[i]]] : p \in {q \in perms : ok(q)}}

\* the frames recommend_track may return as `grouped`; `best` is its first row
recommend_track(v, df) == SortValues(Scored(v, df))

-----------------------------------------------------------------------------
(* audience_analysis *)

\* truncation to one decimal instead of rounding
Round1Truncate(x) ==
    IF ~IsNum(x) THEN x ELSE Num(Sign(x) * ((Abs(x.n) * 10) \div x.d), 10)

\* round(x, 1) on a float64: to the nearest tenth, halves to the even tenth
Round1(x) ==
    IF ~IsNum(x) THEN x
    ELSE LET a == Abs(x.n) * 10
             q == a \div x.d
             r == a % x.d
             t == IF 2 * r < x.d THEN q
                  ELSE IF 2 * r > x.d THEN q + 1
                  ELSE IF q % 2 = 0 THEN q ELSE q + 1
         IN  Num(Sign(x) * t, 10)

\* round(streams / total_streams * 100, 1)
Pct(streams, total_streams) ==
    Round1(FMul(FDiv(Int2F(streams), Int2F(total_streams)), Int2F(100)))

\* Series.unique(): the distinct values in order of first appearance
RECURSIVE Unique(_)
Unique(s) ==
    IF s = <<>> THEN <<>>
    ELSE LET init == Unique(SubSeq(s, 1, Len(s) - 1))
             x == s[Len(s)]
         IN  IF \E i \in 1..Len(init) : init[i] = x THEN init ELSE Append(init, x)

\* sorted(values)
RECURSIVE SortStrs(_)
SortStrs(S) ==
    IF S = {} THEN <<>>
    ELSE LET m == CHOOSE x \in S : \A y \in S \ {x} : StrLt(x, y)
         IN  <<m>> \o SortStrs(S \ {m})

\* df[(df['track_name'] == track_name) & (df['artist_name'] == artist_name)]
TrackDf(df, track_name, artist_name) ==
    SelectSeq(df, LAMBDA r : r.track_name = track_name /\ r.artist_name = artist_name)

\* rows['total_streams'].sum()
StreamsOf(rows) == SumInts([i \in 1..Len(rows) |-> rows[i].total_streams])

AgeDistribution(track_df, age_groups, total_streams) ==
    [i \in 1..Len(age_groups) |->
        [label |-> age_groups[i],
         pct |-> Pct(StreamsOf(SelectSeq(track_df, LAMBDA r : r.age_group = age_groups[i])),
                     total_streams)]]

GenderDistribution(track_df, genders, total_streams) ==
    [i \in 1..Len(genders) |->
        [label |-> genders[i],
         pct |-> Pct(StreamsOf(SelectSeq(track_df, LAMBDA r : r.gender = genders[i])),
                     total_streams)]]

\* "bars = ... * int(pct / 3)" raises ValueError on NaN
BarsRaise(dist) == \E i \in 1..Len(dist) : ~IsNum(dist[i].pct)

\* the first entry holding the maximum: max(dict, key=dict.get) and Series.idxmax()
FirstMax(cells) ==
    CHOOSE i \in 1..Len(cells) :
        /\ \A j \in 1..Len(cells) : ~FGt(cells[j].pct, cells[i].pct)
        /\ \A j \in 1..(i - 1) : FGt(cells[i].pct, cells[j].pct)

Raised(error, at) ==
    [status |-> "raised", error |-> error, at |-> at,
     age_pct |-> <<>>, gender_pct |-> <<>>, cell_pct |-> <<>>,
     primary |-> <<>>, anteil |-> NaN]

Returned(age_pct, gender_pct, cell_pct) ==
    LET i == FirstMax(cell_pct)
    IN  [status |-> "returned", error |-> "", at |-> "",
         age_pct |-> age_pct, gender_pct |-> gender_pct, cell_pct |-> cell_pct,
         primary |-> <<cell_pct[i].age_group, cell_pct[i].gender>>,
         anteil |-> cell_pct[i].pct]

\* casechallenge_final.py and final_case.py: a dict filled over
\* sorted age groups x genders in order of appearance, then max()
AudienceDict(df, track_name, artist_name) ==
    LET track_df == TrackDf(df, track_name, artist_name)
        total_streams == StreamsOf(track_df)
        age_groups == SortStrs({track_df[i].age_group : i \in 1..Len(track_df)})
        genders == Unique([i \in 1..Len(track_df) |-> track_df[i].gender])
        age_pct == AgeDistribution(track_df, age_groups, total_streams)
        gender_pct == GenderDistribution(track_df, genders, total_streams)
        na == Len(age_groups)
        ng == Len(genders)
        cell(a, g) ==
            [age_group |-> a, gender |-> g,
             pct |-> Pct(StreamsOf(SelectSeq(track_df,
                                       LAMBDA r : r.age_group = a /\ r.gender = g)),
                         total_streams)]
        age_gender_pct ==
            [k \in 1..(na * ng) |->
                cell(age_groups[((k - 1) \div ng) + 1], genders[((k - 1) % ng) + 1])]
    IN  IF BarsRaise(age_pct) \/ BarsRaise(gender_pct)
            THEN Raised("ValueError", "int(pct / 3)")
        ELSE IF age_gender_pct = <<>>
            THEN Raised("ValueError", "max(age_gender_pct)")
        ELSE Returned(age_pct, gender_pct, age_gender_pct)

\* the observed (age_group, gender) cells in sorted order
RECURSIVE SortCells(_)
SortCells(S) ==
    IF S = {} THEN <<>>
    ELSE LET m == CHOOSE x \in S :
                      \A y \in S \ {x} : PairLt(x[1], x[2], y[1], y[2])
         IN  <<m>> \o SortCells(S \ {m})

\* casechallenge_sony.py: print_distribution twice, then groupby and idxmax()
AudienceGroupby(df, track_name, artist_name) ==
    LET track_df == TrackDf(df, track_name, artist_name)
        total_streams == StreamsOf(track_df)
        age_groups == SortStrs({track_df[i].age_group : i \in 1..Len(track_df)})
        genders == SortStrs({track_df[i].gender : i \in 1..Len(track_df)})
        age_pct == AgeDistribution(track_df, age_groups, total_streams)
        gender_pct == GenderDistribution(track_df, genders, total_streams)
        index == SortCells({<<track_df[i].age_group, track_df[i].gender>> :
                               i \in 1..Len(track_df)})
        age_gender_pct ==
            [k \in 1..Len(index) |->
                [age_group |-> index[k][1], gender |-> index[k][2],
                 pct |-> Pct(StreamsOf(SelectSeq(track_df,
                                 LAMBDA r : r.age_group = index[k][1]
                                            /\ r.gender = index[k][2])),
                             total_streams)]]
    IN  IF BarsRaise(age_pct) \/ BarsRaise(gender_pct)
            THEN Raised("ValueError", "int(pct / 3)")
        ELSE IF age_gender_pct = <<>>
            THEN Raised("ValueError", "idxmax()")
        ELSE Returned(age_pct, gender_pct, age_gender_pct)

audience_analysis(v, df, track_name, artist_name) ==
    IF v = "casechallenge_sony" THEN AudienceGroupby(df, track_name, artist_name)
    ELSE AudienceDict(df, track_name, artist_name)

-----------------------------------------------------------------------------
(* main *)

Call(fn, track_name, artist_name) ==
    [fn |-> fn, track_name |-> track_name, artist_name |-> artist_name]

\* the last row taken for the first
BestOfLast(grouped) == grouped[Len(grouped)]

\* best = grouped.iloc[0]
BestOf(grouped) == grouped[1]

Init ==
    /\ variant \in Variants
    /\ source \in Tables
    /\ pc = "start"
    /\ data = None
    /\ ranked = <<>>
    /\ best = None
    /\ audience = None
    /\ calls = <<>>

\* load_combine_data() returns the joined frame
LoadOk ==
    /\ pc = "start"
    /\ source # <<>>
    /\ data' = Frame(Combine(source))
    /\ calls' = Append(calls, Call("load", "", ""))
    /\ pc' = "loaded"
    /\ UNCHANGED <<variant, source, ranked, best, audience>>

\* load_combine_data() catches an exception (no connection, a failed fetch,
\* a join on an empty table) and returns None
LoadFail ==
    /\ pc = "start"
    /\ data' = None
    /\ calls' = Append(calls, Call("load", "", ""))
    /\ pc' = "load_failed"
    /\ UNCHANGED <<variant, source, ranked, best, audience>>

\* if data is None: print("Analyse failed."); return
AnalyseFailed ==
    /\ pc = "load_failed"
    /\ data = None
    /\ pc' = "exit"
    /\ UNCHANGED <<variant, source, data, ranked, best, audience, calls>>

\* best_track, stats = recommend_track(data)
RecommendTrack ==
    /\ pc = "loaded"
    /\ \E grouped \in recommend_track(variant, data.rows) :
           /\ ranked' = grouped
           /\ best' = BestOf(grouped)
    /\ calls' = Append(calls, Call("recommend_track", "", ""))
    /\ pc' = "recommended"
    /\ UNCHANGED <<variant, source, data, audience>>

\* audience_info = audience_analysis(data, best_track['track_name'],
\*                                   best_track['artist_name'])
AudienceAnalysis ==
    /\ pc = "recommended"
    /\ audience' = audience_analysis(variant, data.rows, best.track_name, best.artist_name)
    /\ calls' = Append(calls, Call("audience_analysis",
                                   best.track_name, best.artist_name))
    /\ pc' = IF audience'.status = "raised" THEN "crashed" ELSE "analysed"
    /\ UNCHANGED <<variant, source, data, ranked, best>>

\* print_section("Analyse completed")
Completed ==
    /\ pc = "analysed"
    /\ pc' = "exit"
    /\ UNCHANGED <<variant, source, data, ranked, best, audience, calls>>

Next ==
    \/ LoadOk
    \/ LoadFail
    \/ AnalyseFailed
    \/ RecommendTrack
    \/ AudienceAnalysis
    \/ Completed

Spec == Init /\ [][Next]_vars

-----------------------------------------------------------------------------
(* The two functions called directly on a loaded frame, audience_analysis   *)
(* with any (track name, artist name) pair.                                 *)

Targets == {<<"T1", "X">>, <<"T2", "X">>, <<"T3", "Y">>, <<"T2", "Y">>}

InitCalls ==
    /\ variant \in Variants
    /\ source \in Tables \ {<<>>}
    /\ pc = "caller"
    /\ data = Frame(Combine(source))
    /\ ranked = <<>>
    /\ best = None
    /\ audience = None
    /\ calls = <<>>

CallRecommendTrack ==
    /\ pc = "caller"
    /\ \E grouped \in recommend_track(variant, data.rows) :
           /\ ranked' = grouped
           /\ best' = BestOf(grouped)
    /\ calls' = Append(calls, Call("recommend_track", "", ""))
    /\ pc' = "returned"
    /\ UNCHANGED <<variant, source, data, audience>>

CallAudienceAnalysis ==
    /\ pc = "caller"
    /\ \E target \in Targets :
           /\ audience' = audience_analysis(variant, data.rows, target[1], target[2])
           /\ calls' = Append(calls, Call("audience_analysis", target[1], target[2]))
    /\ pc' = IF audience'.status = "raised" THEN "raised" ELSE "returned"
    /\ UNCHANGED <<variant, source, data, ranked, best>>

NextCalls == CallRecommendTrack \/ CallAudienceAnalysis

SpecCalls == InitCalls /\ [][NextCalls]_vars

-----------------------------------------------------------------------------
(* What the claims speak about, read off the input table and the call log. *)

PairOfRow(r) == <<TrackMeta(r.isrc).track_name, TrackMeta(r.isrc).artist_name>>

SourcePairs == {PairOfRow(source[i]) : i \in 1..Len(source)}

RowsOfPair(p) == SelectSeq(source, LAMBDA r : PairOfRow(r) = p)

PairStreams(p) ==
    LET rows == RowsOfPair(p) IN SumInts([i \in 1..Len(rows) |-> rows[i].total_streams])

PairSaves(p) ==
    LET rows == RowsOfPair(p) IN SumInts([i \in 1..Len(rows) |-> rows[i].total_saves])

PairSkipSum(p) ==
    LET rows == RowsOfPair(p) IN SumInts([i \in 1..Len(rows) |-> rows[i].skip_rate])

AllStreamsPositive == \A p \in SourcePairs : PairStreams(p) > 0

RankedPairs == {<<ranked[i].track_name, ranked[i].artist_name>> : i \in 1..Len(ranked)}

\* recommend_track has returned
HasRanked == ranked # <<>>

\* the tie-break of the specification between two rows of equal score
TieBreakBefore(a, b) ==
    \/ a.total_streams > b.total_streams
    \/ /\ a.total_streams = b.total_streams
       /\ PairLt(a.track_name, a.artist_name, b.track_name, b.artist_name)

(* C1: the returned sequence is in descending composite score, and two     *)
(* adjacent tracks of equal score come larger total_streams first, then    *)
(* ascending track name, then ascending artist name.  (Stated for adjacent *)
(* entries whose scores are numbers; NaN scores are the matter of C3.)     *)
C1_RankedByScoreThenTieBreak ==
    \A i \in 1..(Len(ranked) - 1) :
        LET a == ranked[i]
            b == ranked[i + 1]
        IN  (~IsNaN(a.total_score) /\ ~IsNaN(b.total_score)) =>
                \/ FGt(a.total_score, b.total_score)
                \/ a.total_score = b.total_score /\ TieBreakBefore(a, b)

(* C2: when every track has positive total_streams, the returned sequence  *)
(* holds exactly one entry per distinct (track name, artist name) pair of  *)
(* the input, none for another pair and none twice; rows of different      *)
(* ISRCs with the same pair of names are merged into that entry.           *)
C2_OneEntryPerNamePair ==
    (HasRanked /\ AllStreamsPositive) =>
        /\ RankedPairs = SourcePairs
        /\ Len(ranked) = Cardinality(SourcePairs)
        /\ \A i \in 1..Len(ranked) :
               ranked[i].total_streams =
                   PairStreams(<<ranked[i].track_name, ranked[i].artist_name>>)

\* two rows of different ISRCs and the same names were scored as one track
C2_MergedWitness ==
    /\ HasRanked
    /\ AllStreamsPositive
    /\ \E i, j \in 1..Len(source) :
           source[i].isrc # source[j].isrc /\ PairOfRow(source[i]) = PairOfRow(source[j])
    /\ Len(ranked) = 1

(* C3: a track whose aggregated total_streams is 0 never appears in the    *)
(* returned sequence and gets no score, and the sequence never mixes       *)
(* entries with a valid score and entries with a NaN score.                *)
C3_ZeroStreamTracksExcluded ==
    HasRanked =>
        /\ \A i \in 1..Len(ranked) : ranked[i].total_streams # 0
        /\ ~(/\ \E i \in 1..Len(ranked) : IsNaN(ranked[i].total_score)
             /\ \E i \in 1..Len(ranked) : ~IsNaN(ranked[i].total_score))

-----------------------------------------------------------------------------
(* audience_analysis: the pair it was called with and the rows it matches  *)

HasAudience == audience # None

Target == calls[Len(calls)]

TargetRows ==
    SelectSeq(source, LAMBDA r : PairOfRow(r) = <<Target.track_name, Target.artist_name>>)

TargetStreams == SumInts([i \in 1..Len(TargetRows) |-> TargetRows[i].total_streams])

(* C4: called with a pair of names that matches no record,                 *)
(* audience_analysis fails with a TrackNotFoundError, which the            *)
(* zero-volume failure is not; it returns no result.                       *)
C4_AbsentTrackRaisesTrackNotFound ==
    (HasAudience /\ TargetRows = <<>>) =>
        /\ audience.status = "raised"
        /\ audience.error = "TrackNotFoundError"

(* C5: called for a track that has records whose total_streams sum to 0,   *)
(* audience_analysis fails with a ZeroVolumeError and returns no result.   *)
C5_ZeroVolumeRaisesZeroVolumeError ==
    (HasAudience /\ TargetRows # <<>> /\ TargetStreams = 0) =>
        /\ audience.status = "raised"
        /\ audience.error = "ZeroVolumeError"

\* the scored population is degenerate for the max-relative normalization
DegeneratePopulation ==
    \/ \A i \in 1..Len(source) : source[i].total_streams = 0
    \/ \A i \in 1..Len(source) : source[i].skip_rate = 0

(* C6: under the max-relative variant a degenerate population (maximum     *)
(* total_streams 0, or maximum skip_rate 0) makes recommend_track signal   *)
(* a PolicyError: it returns no ranked list, so no NaN-scored tracks.      *)
C6_DegeneratePopulationReturnsNothing ==
    (variant = "final_case" /\ source # <<>> /\ DegeneratePopulation) => ~HasRanked

(* C7: the primary segment is the (age bucket, gender) pair of maximum     *)
(* rounded share, and among several pairs of that share the smallest in    *)
(* ascending order of age label, then gender label, whatever the order of  *)
(* the records.                                                            *)
C7_PrimaryIsLexSmallestMaximum ==
    (HasAudience /\ audience.status = "returned") =>
        LET cells == audience.cell_pct
        IN  \E i \in 1..Len(cells) :
                /\ audience.primary = <<cells[i].age_group, cells[i].gender>>
                /\ audience.anteil = cells[i].pct
                /\ \A j \in 1..Len(cells) :
                       /\ ~FGt(cells[j].pct, cells[i].pct)
                       /\ (j # i /\ cells[j].pct = cells[i].pct) =>
                              PairLt(cells[i].age_group, cells[i].gender,
                                     cells[j].age_group, cells[j].gender)

\* | sum of the shares - 100 | <= tol
SumWithin(dist, tol) ==
    LET total == FSum([i \in 1..Len(dist) |-> dist[i].pct])
        diff == FSub(total, Int2F(100))
    IN  /\ FGe(tol, diff)
        /\ FGe(tol, FNeg(diff))

(* C8: for a track with positive total_streams the rounded age shares sum  *)
(* to 100 within 0.1, the rounded gender shares sum to 100 within 0.1, and *)
(* the rounded (age, gender) shares sum to 100 within 0.4.                 *)
C8_RoundedSharesSumTo100 ==
    (HasAudience /\ audience.status = "returned") =>
        /\ SumWithin(audience.age_pct, Num(1, 10))
        /\ SumWithin(audience.gender_pct, Num(1, 10))
        /\ SumWithin(audience.cell_pct, Num(4, 10))

(* C8 as amended: each list of k rounded shares sums to 100 within         *)
(* 0.05 * k (half a rounding unit per share).                              *)
C8_RoundedSharesSumWithinHalfUnitEach ==
    (HasAudience /\ audience.status = "returned") =>
        /\ SumWithin(audience.age_pct, Num(Len(audience.age_pct), 20))
        /\ SumWithin(audience.gender_pct, Num(Len(audience.gender_pct), 20))
        /\ SumWithin(audience.cell_pct, Num(Len(audience.cell_pct), 20))

\* a returned split whose rounded age shares do not sum to exactly 100
C8_RoundingErrorWitness ==
    /\ HasAudience
    /\ audience.status = "returned"
    /\ TargetStreams > 0
    /\ FSum([i \in 1..Len(audience.age_pct) |-> audience.age_pct[i].pct]) # Int2F(100)

-----------------------------------------------------------------------------
(* The mean-relative formula written out over the tracks of the input. *)

SaveRateOf(p) == FDiv(Int2F(PairSaves(p)), Int2F(PairStreams(p)))

SkipFractionOf(p) == FDiv(Num(PairSkipSum(p), Len(RowsOfPair(p))), Int2F(100))

MeanSaveRate ==
    LET keys == SortKeys(SourcePairs)
    IN  FDiv(FSum([i \in 1..Len(keys) |-> SaveRateOf(keys[i])]), Int2F(Len(keys)))

MeanSkipFraction ==
    LET keys == SortKeys(SourcePairs)
    IN  FDiv(FSum([i \in 1..Len(keys) |-> SkipFractionOf(keys[i])]), Int2F(Len(keys)))

AllStreams == SumInts([i \in 1..Len(source) |-> source[i].total_streams])

MeanRelativeScore(p) ==
    FAdd(FSub(FMul(Num(1, 2), FDiv(SaveRateOf(p), MeanSaveRate)),
              FMul(Num(3, 10), FDiv(SkipFractionOf(p), MeanSkipFraction))),
         FMul(Num(1, 5), FDiv(Int2F(PairStreams(p)), Int2F(AllStreams))))

\* | x - milli / 1000 | <= 1 / 1000
Near(x, milli) ==
    LET diff == FSub(x, Num(milli, 1000))
    IN  FGe(Num(1, 1000), diff) /\ FGe(Num(1, 1000), FNeg(diff))

(* C9: under the mean-relative variants every track's composite score is   *)
(* 0.5 * save_rate / mean(save_rate) - 0.3 * skip / mean(skip)             *)
(* + 0.2 * total_streams / sum(total_streams); for T1(1000, 100, 5),       *)
(* T2(500, 20, 10), T3(2000, 150, 2) the scores are 0.490, -0.222 and      *)
(* 0.532 within 0.001 and the order returned is T3, T1, T2.                *)
C9_MeanRelativeScores ==
    (HasRanked /\ variant # "final_case" /\ AllStreamsPositive) =>
        /\ \A i \in 1..Len(ranked) :
               ranked[i].total_score =
                   MeanRelativeScore(<<ranked[i].track_name, ranked[i].artist_name>>)
        /\ source = ScenarioScore =>
               /\ [i \in 1..3 |-> ranked[i].track_name] = <<"T3", "T1", "T2">>
               /\ Near(ranked[1].total_score, 532)
               /\ Near(ranked[2].total_score, 490)
               /\ Near(ranked[3].total_score, -222)

\* the three tracks of the scenario have been scored by a mean-relative variant
C9_ScenarioWitness ==
    /\ HasRanked
    /\ variant = "casechallenge_sony"
    /\ source = ScenarioScore
    /\ Len(ranked) = 3

-----------------------------------------------------------------------------
LoadCall == Call("load", "", "")

RecommendCall == Call("recommend_track", "", "")

(* C10: in a run of main the data is loaded once and never again; if the   *)
(* load fails neither recommend_track nor audience_analysis is called;     *)
(* otherwise recommend_track is called once, then audience_analysis once,  *)
(* with the names of the first row recommend_track returned.               *)
C10_MainCallsInOrder ==
    /\ Cardinality({i \in 1..Len(calls) : calls[i].fn = "load"}) <= 1
    /\ pc = "start" => calls = <<>>
    /\ data = None => \A i \in 1..Len(calls) : calls[i].fn = "load"
    /\ (pc = "load_failed" \/ (pc = "exit" /\ data = None)) => calls = <<LoadCall>>
    /\ pc = "loaded" => calls = <<LoadCall>>
    /\ pc = "recommended" => calls = <<LoadCall, RecommendCall>>
    /\ (pc \in {"analysed", "crashed"} \/ (pc = "exit" /\ data # None)) =>
           calls = <<LoadCall, RecommendCall,
                     Call("audience_analysis",
                          ranked[1].track_name, ranked[1].artist_name)>>

\* main ran to its end over a ranking of two tracks
C10_CompletedWitness ==
    /\ pc = "exit"
    /\ data # None
    /\ Len(ranked) = 2
    /\ Len(calls) = 3

-----------------------------------------------------------------------------
\* the aggregated skip_rate of a track: the mean over its rows
PairSkipRate(p) == Num(PairSkipSum(p), Len(RowsOfPair(p)))

\* the mean, and so the maximum, of the tracks' skip rates is positive
SkipNormalizerPositive == \E i \in 1..Len(source) : source[i].skip_rate > 0

(* C11: in a scored population where every track has positive              *)
(* total_streams and the skip normalizer (mean skip rate, or maximum skip  *)
(* rate under the max-relative variant) is positive, of two tracks with    *)
(* equal total_streams and equal total_saves the one with the strictly     *)
(* greater aggregated skip_rate has the strictly lower composite score and *)
(* comes later in the returned sequence.                                   *)
C11_HigherSkipRateRanksLower ==
    (HasRanked /\ AllStreamsPositive /\ SkipNormalizerPositive) =>
        \A i, j \in 1..Len(ranked) :
            LET a == ranked[i]
                b == ranked[j]
            IN  (/\ a.total_streams = b.total_streams
                 /\ a.total_saves = b.total_saves
                 /\ FGt(PairSkipRate(<<a.track_name, a.artist_name>>),
                        PairSkipRate(<<b.track_name, b.artist_name>>))) =>
                    /\ FGt(b.total_score, a.total_score)
                    /\ j < i

-----------------------------------------------------------------------------
\* both implementations of audience_analysis applied to the call just made
DictResult == AudienceDict(data.rows, Target.track_name, Target.artist_name)

GroupbyResult == AudienceGroupby(data.rows, Target.track_name, Target.artist_name)

(* C12: for every record set and every target track whose matching        *)
(* records have positive total_streams, the dict-and-max implementation    *)
(* and the groupby/idxmax implementation of audience_analysis select the   *)
(* same primary (age bucket, gender) pair and report the same rounded      *)
(* share.                                                                  *)
C12_ImplementationsAgree ==
    (HasAudience /\ TargetStreams > 0) =>
        /\ DictResult.status = "returned"
        /\ GroupbyResult.status = "returned"
        /\ DictResult.primary = GroupbyResult.primary
        /\ DictResult.anteil = GroupbyResult.anteil

====
